---- MODULE Spec2Model ----
(***************************************************************************)
(* A model of src/timer.py: the TimeIt object (two parallel in-memory      *)
(* lists), the two persisted text files it rewrites, and the fit /         *)
(* completion-time selection of plot_it.                                   *)
(***************************************************************************)
EXTENDS Integers, Sequences, FiniteSets, TLC

VARIABLES
    upload_data,     \* self.upload_data: list of remaining-file counts
    time_data,       \* self.time_data: list of datetimes [sec, us]
    nfiles,          \* self.nfiles
    uploads_txt,     \* data/uploads.txt:    [exists, rows]
    timestamps_txt,  \* data/timestamps.txt: [exists, rows]
    clock,           \* the system clock read by datetime.now() (whole seconds)
    alive,           \* FALSE once an uncaught SystemExit has ended the process
    lastOp,          \* the operation that ran last on the object
    exc,             \* the exception it ended with, "none" when it returned
    ret,             \* the list a read_* call returned (<<>> otherwise)
    calls,           \* the file_number arguments of add_to_dataset since construction
    uWrites,         \* savetxt calls on uploads.txt made by the last add_to_dataset
    tWrites,         \* savetxt calls on timestamps.txt made by the last add_to_dataset
    ioLog,           \* what the file system did to the last operation's writes
    added,           \* add_to_dataset calls that returned True since construction
    fit              \* what the last plot_it computed

vars == <<upload_data, time_data, nfiles, uploads_txt, timestamps_txt, clock,
          alive, lastOp, exc, ret, calls, uWrites, tWrites, ioLog, added, fit>>

---------------------------------------------------------------------------
\* Bounds of the model.

\* The number of datetime.now() readings (add_to_dataset calls reaching line 51).
MaxClock == 2
\* The number of add_to_dataset calls made on one object.
MaxCalls == 2
\* The number of samples of a dataset that plot_it is applied to.
MaxSamples == 3

---------------------------------------------------------------------------
\* Python values that reach add_to_dataset as file_number, or come back from
\* input(): None, an int, or a (non-empty) str.

PyNone == [kind |-> "none", val |-> 0]
PyStr == [kind |-> "str", val |-> 0]
PyInt(n) == [kind |-> "int", val |-> n]

\* The default total file count of __init__ (nfiles=100).
DefaultNFiles == 100

\* The file indices of the model, within 0..nfiles: the first file, a file in
\* the middle, the last file.
Indices == {0, 10, DefaultNFiles}

\* The file numbers a caller passes: None (the default), an index, or a
\* string such as "7".
FileNumbers == {PyNone, PyStr} \cup {PyInt(n) : n \in Indices}

\* What input() gives back at the prompt: the typed index as an int (Python 2
\* evaluates the line), or the typed line as a str (Python 3).
PromptValues == {PyStr} \cup {PyInt(n) : n \in Indices}

\* Python truth value of `file_number` (line 47): None and 0 are false.
Truthy(v) == \/ v.kind = "str"
             \/ v.kind = "int" /\ v.val # 0

\* The microsecond fields datetime.now() is read with.
USecs == {0, 500000}

\* input() can also end with EOFError (the prompt's stream is closed).
PromptEOF == [kind |-> "eof", val |-> 0]

---------------------------------------------------------------------------
\* Text of the persisted files.  A file is [exists, rows]; a row is the text
\* of one line.

NoFile == [exists |-> FALSE, rows |-> <<>>]

RECURSIVE DigitsOf(_)
\* The decimal digits of a natural number, most significant first.
DigitsOf(n) == IF n < 10 THEN <<n>> ELSE Append(DigitsOf(n \div 10), n % 10)

RECURSIVE ValueOf(_)
\* The natural number a digit sequence denotes.
ValueOf(ds) == IF ds = <<>> THEN 0
               ELSE 10 * ValueOf(SubSeq(ds, 1, Len(ds) - 1)) + ds[Len(ds)]

RECURSIVE Pow10(_)
Pow10(k) == IF k = 0 THEN 1 ELSE 10 * Pow10(k - 1)

\* savetxt's default fmt '%.18e' of a count: sign, mantissa d.ddd... and
\* exponent; the mantissa's digits are kept up to the last one of the integer
\* (the zeros that pad it to 18 places are left out).
FormatCount(n) ==
    LET a == IF n < 0 THEN -n ELSE n
        ds == DigitsOf(a)
    IN  [neg |-> n < 0, mant |-> ds, exp |-> Len(ds) - 1]

\* loadtxt's float() of such a line.
ParseCount(s) ==
    LET v == ValueOf(s.mant) * Pow10(s.exp - (Len(s.mant) - 1))
    IN  IF s.neg THEN -v ELSE v

\* The six digits of a microsecond field, zero padded ('%06d').
Pad6(us) ==
    LET ds == DigitsOf(us)
    IN  [i \in 1..6 |-> IF i <= 6 - Len(ds) THEN 0 ELSE ds[i - (6 - Len(ds))]]

\* str(datetime), which fmt='%s' writes: 'YYYY-MM-DD HH:MM:SS' followed by
\* '.ffffff' only when the microsecond field is not 0.
FormatTime(t) ==
    [secs |-> t.sec, frac |-> IF t.us = 0 THEN <<>> ELSE Pad6(t.us)]

\* datetime.strptime(x, "%Y-%m-%d %H:%M:%S.%f"): the '.' and one to six digits
\* are required; the digits are read as a fraction padded on the right.
StrptimeOk(x) == Len(x.frac) \in 1..6

Strptime(x) ==
    [sec |-> x.secs, us |-> ValueOf(x.frac) * Pow10(6 - Len(x.frac))]

\* The lines savetxt writes for the list of counts (one '%.18e' per row) and
\* for the list of datetimes (one '%s' per row).
CountRows(data) == [i \in 1..Len(data) |-> FormatCount(data[i])]

TimeRows(data) == [i \in 1..Len(data) |-> FormatTime(data[i])]

\* np.savetxt(file_path, rows): io is what the file system does.  "ok": the
\* file is replaced by the rows.  "fail_open": open() raises IOError and the
\* file is as it was.  "fail_write": the file was opened (created, truncated)
\* and the write of the buffered rows raises IOError.
IOOutcomes == {"ok", "fail_open", "fail_write"}

\* np_savetxt opening the file for appending instead of writing.
np_savetxt_append(file, rows, io) ==
    CASE io = "ok" -> [file |-> [exists |-> TRUE, rows |-> file.rows \o rows],
                       raised |-> FALSE]
      [] io = "fail_open" -> [file |-> file, raised |-> TRUE]
      [] OTHER -> [file |-> [exists |-> TRUE, rows |-> file.rows], raised |-> TRUE]

np_savetxt(file, rows, io) ==
    CASE io = "ok" -> [file |-> [exists |-> TRUE, rows |-> rows], raised |-> FALSE]
      [] io = "fail_open" -> [file |-> file, raised |-> TRUE]
      [] OTHER -> [file |-> [exists |-> TRUE, rows |-> <<>>], raised |-> TRUE]

\* np.loadtxt(file_path): an array of the rows; a file of one row gives a 0-d
\* array (loadtxt squeezes, ndmin=0), an empty file a 1-d array of length 0.
np_loadtxt(file) ==
    [ndim |-> IF Len(file.rows) = 1 THEN 0 ELSE 1, items |-> file.rows]

---------------------------------------------------------------------------
\* The methods of TimeIt, as functions of what they read.

\* read_upload_data without the os.path.exists test: loadtxt of a missing
\* file raises IOError.
read_upload_data_unguarded(init, file) ==
    IF init # 0 THEN [exc |-> "none", ret |-> <<>>]
    ELSE IF ~file.exists THEN [exc |-> "IOError", ret |-> <<>>]
    ELSE LET a == np_loadtxt(file)
         IN  IF a.ndim = 0
             THEN [exc |-> "TypeError", ret |-> <<>>]
             ELSE [exc |-> "none",
                   ret |-> [i \in 1..Len(a.items) |-> ParseCount(a.items[i])]]

\* read_upload_data (lines 57-72); list() of a 0-d array raises TypeError.
read_upload_data(init, file) ==
    IF file.exists /\ init = 0
    THEN LET a == np_loadtxt(file)
         IN  IF a.ndim = 0
             THEN [exc |-> "TypeError", ret |-> <<>>]
             ELSE [exc |-> "none",
                   ret |-> [i \in 1..Len(a.items) |-> ParseCount(a.items[i])]]
    ELSE [exc |-> "none", ret |-> <<>>]

\* read_time_data (lines 74-91); iterating a 0-d array raises TypeError, a
\* line strptime cannot parse raises ValueError.
read_time_data(init, file) ==
    IF file.exists /\ init = 0
    THEN LET a == np_loadtxt(file)
         IN  IF a.ndim = 0
             THEN [exc |-> "TypeError", ret |-> <<>>]
             ELSE IF \E i \in 1..Len(a.items) : ~StrptimeOk(a.items[i])
             THEN [exc |-> "ValueError", ret |-> <<>>]
             ELSE [exc |-> "none",
                   ret |-> [i \in 1..Len(a.items) |-> Strptime(a.items[i])]]
    ELSE [exc |-> "none", ret |-> <<>>]

\* write_upload_data (lines 93-108): IOError becomes SystemExit.
write_upload_data(data, file, io) ==
    LET w == np_savetxt(file, CountRows(data), io)
    IN  [file |-> w.file, exc |-> IF w.raised THEN "SystemExit" ELSE "none",
         savetxts |-> 1]

\* write_time_data printing the IOError without raising SystemExit.
write_time_data_swallow(data, file, io) ==
    LET w == np_savetxt(file, TimeRows(data), io)
    IN  [file |-> w.file, exc |-> "none", savetxts |-> 1]

\* write_time_data (lines 110-125): IOError becomes SystemExit.
write_time_data(data, file, io) ==
    LET w == np_savetxt(file, TimeRows(data), io)
    IN  [file |-> w.file, exc |-> IF w.raised THEN "SystemExit" ELSE "none",
         savetxts |-> 1]

\* add_to_dataset (lines 40-55) on the object `self` = [upload_data, time_data,
\* nfiles] and the two files: the object and the files it leaves, the
\* exception it ends with, and the savetxt calls it made.
add_to_dataset(self, fU, fT, file_number, typed, now, ioU, ioT) ==
    LET unchanged == [upload_data |-> self.upload_data, time_data |-> self.time_data,
                      uploads_txt |-> fU, timestamps_txt |-> fT,
                      exc |-> "none", uWrites |-> 0, tWrites |-> 0]
        current_file == IF Truthy(file_number) THEN file_number ELSE typed
        times == Append(self.time_data, now)
        counts == Append(self.upload_data, self.nfiles - current_file.val)
        wu == write_upload_data(counts, fU, ioU)
        wt == write_time_data(times, fT, ioT)
    IN  IF current_file.kind = "eof"
        THEN [unchanged EXCEPT !.exc = "EOFError"]
        ELSE IF current_file.kind # "int"
        THEN [unchanged EXCEPT !.time_data = times, !.exc = "TypeError"]
        ELSE IF wu.exc # "none"
        THEN [unchanged EXCEPT !.time_data = times, !.upload_data = counts,
                               !.uploads_txt = wu.file, !.exc = wu.exc,
                               !.uWrites = wu.savetxts]
        ELSE [upload_data |-> counts, time_data |-> times,
              uploads_txt |-> wu.file, timestamps_txt |-> wt.file,
              exc |-> wt.exc, uWrites |-> wu.savetxts, tWrites |-> wt.savetxts]

---------------------------------------------------------------------------
\* The fit of plot_it.  Times are counted in half seconds, the resolution of
\* USecs, so that every time of the model is an integer; a root and a sample
\* point are fractions [n, d] with d > 0.

\* The number of points of np.linspace (line 165).
NumPoints == 100

Abs(v) == IF v < 0 THEN -v ELSE v

Frac(n, d) == IF d < 0 THEN [n |-> -n, d |-> -d] ELSE [n |-> n, d |-> d]

\* time_data_to_dec (lines 127-136): (x - epoch).total_seconds(), in half seconds.
time_data_to_dec(td) ==
    [i \in 1..Len(td) |-> 2 * td[i].sec + td[i].us \div 500000]

\* The polynomial degrees plot_it is called with.
Degrees == {1, 2}

\* The integer square root of a perfect square, -1 for another number.
ISqrt(v) == IF \E q \in 0..v : q * q = v THEN CHOOSE q \in 0..v : q * q = v ELSE -1

\* The coefficient vectors (highest power first) np.polyfit returns for the
\* samples, abstracted to a finite set of integer vectors: the least-squares
\* solution is not computed.  A quadratic has rational or complex roots.
FitCoefs(poly) ==
    IF poly = 1
    THEN {<<a, b>> : a \in {-1, 0, 1}, b \in {0, 4, 6}}
    ELSE {z \in {<<a, b, c>> : a \in {-1, 0, 1}, b \in {-8, 0, 1}, c \in {0, 1, 12, 15}} :
            z[1] = 0 \/ z[2] * z[2] - 4 * z[1] * z[3] < 0
                     \/ ISqrt(z[2] * z[2] - 4 * z[1] * z[3]) >= 0}

\* np_polyfit refusing fewer than deg + 1 points.
np_polyfit_strict(x, y, deg, z) ==
    IF Len(x) = 0 \/ Len(x) # Len(y) \/ Len(x) < deg + 1
    THEN [exc |-> "TypeError", z |-> <<>>]
    ELSE [exc |-> "none", z |-> z]

\* np.polyfit(x, y, deg) (line 160): TypeError for an empty x and for x and y
\* of different lengths; with fewer than deg + 1 points it only warns
\* (RankWarning) and returns the coefficients `z` all the same.
np_polyfit(x, y, deg, z) ==
    IF Len(x) = 0 \/ Len(x) # Len(y)
    THEN [exc |-> "TypeError", z |-> <<>>]
    ELSE [exc |-> "none", z |-> z]

\* The rounding errors of the eigenvalue computation, in quarters of a half
\* second.
RootErrors == {-1, 0, 1}

\* np.roots(z) (line 161): leading and trailing zero coefficients are
\* stripped, the roots of what is left are the eigenvalues of its companion
\* matrix (in the order LAPACK finds them: `order`; off by the rounding error
\* `err`), and one exact 0 follows for each trailing zero coefficient.
np_roots(z, order, err) ==
    LET nz == {i \in 1..Len(z) : z[i] # 0}
        first == CHOOSE i \in nz : \A j \in nz : i <= j
        last == CHOOSE i \in nz : \A j \in nz : j <= i
        p == SubSeq(z, first, last)
        zeros == [i \in 1..(Len(z) - last) |-> Frac(0, 1)]
        approx(n, d) == Frac(4 * n + err * d, 4 * d)
        disc == p[2] * p[2] - 4 * p[1] * p[3]
        lo == approx(-p[2] - ISqrt(disc), 2 * p[1])
        hi == approx(-p[2] + ISqrt(disc), 2 * p[1])
    IN  IF nz = {} THEN [complex |-> FALSE, roots |-> <<>>]
        ELSE IF Len(p) = 1 THEN [complex |-> FALSE, roots |-> zeros]
        ELSE IF Len(p) = 2
        THEN [complex |-> FALSE, roots |-> <<approx(-p[2], p[1])>> \o zeros]
        ELSE IF disc < 0 THEN [complex |-> TRUE, roots |-> <<>>]
        ELSE [complex |-> FALSE,
              roots |-> (IF order = "lo_hi" THEN <<lo, hi>> ELSE <<hi, lo>>) \o zeros]

RootOrders == {"lo_hi", "hi_lo"}

\* np.linspace(start, stop, num) (line 165) from the integer `start` to the
\* fraction `stop`: start + i * (stop - start) / (num - 1), as numerators over
\* the common denominator d.
np_linspace(start, stop, num) ==
    [d |-> (num - 1) * stop.d,
     n |-> [i \in 1..num |->
               start * (num - 1) * stop.d + (i - 1) * (stop.n - start * stop.d)]]

RECURSIVE Power(_, _)
Power(b, k) == IF k = 0 THEN 1 ELSE b * Power(b, k - 1)

RECURSIVE Horner(_, _, _, _)
\* y = y * x + c over the first k coefficients of z at x = n/d, as the
\* numerator over d^(k-1).
Horner(z, k, n, d) ==
    IF k = 0 THEN 0 ELSE Horner(z, k - 1, n, d) * n + z[k] * Power(d, k - 1)

\* p(xp) of p = np.poly1d(z) (lines 164, 167): the values at the points, as
\* numerators over xp.d^(Len(z)-1).  A value is [nan, v]; Horner's rule on
\* finite coefficients and finite points never gives a NaN.
poly1d(z, xp) ==
    [i \in 1..Len(xp.n) |-> [nan |-> FALSE, v |-> Horner(z, Len(z), xp.n[i], xp.d)]]

\* np_abs left out: the values as they are.
np_abs_missing(ys) == ys

\* np.abs
np_abs(ys) == [i \in 1..Len(ys) |-> [nan |-> ys[i].nan, v |-> Abs(ys[i].v)]]

RECURSIVE ArgminScan(_, _, _)
\* The scan of np.nanargmin over positions lo..hi, done by halves: the
\* position of the smallest value that is not a NaN (0: there is none); of
\* two equal values the earlier position is kept.
ArgminScan(ys, lo, hi) ==
    IF lo > hi THEN 0
    ELSE IF lo = hi THEN (IF ys[lo].nan THEN 0 ELSE lo)
    ELSE LET mid == (lo + hi) \div 2
             l == ArgminScan(ys, lo, mid)
             r == ArgminScan(ys, mid + 1, hi)
         IN  IF l = 0 THEN r
             ELSE IF r = 0 THEN l
             ELSE IF ys[r].v < ys[l].v THEN r ELSE l

\* np.nanargmin (line 168): the index (from 0) of the first smallest value
\* that is not a NaN; -1 stands for the ValueError of an all-NaN array.
np_nanargmin(ys) == ArgminScan(ys, 1, Len(ys)) - 1

\* datetime.fromtimestamp(x, pytz.utc).strftime('%H:%M') of the point n/d
\* (in half seconds): hour and minute of the day.
strftime_HM(n, d) ==
    LET minutes == n \div (d * 2 * 60)
    IN  [hh |-> (minutes \div 60) % 24, mm |-> minutes % 60]

NoFit ==
    [done |-> FALSE, poly |-> 0, exc |-> "none", fitted |-> FALSE, z |-> <<>>,
     roots |-> <<>>, endtime_dec |-> Frac(0, 1), xp |-> [d |-> 1, n |-> <<>>],
     newfiles |-> <<>>, theargmin |-> -1, completion_time |-> [hh |-> 0, mm |-> 0],
     saved |-> FALSE]

\* plot_it (lines 138-185) on the object's two lists.  ax.plot (line 153)
\* raises ValueError for lists of different lengths; roots[0] raises
\* IndexError when there is no root; fromtimestamp of a complex root raises
\* TypeError (line 163).
plot_it(upload, times, poly, z, order, err) ==
    LET time_data_dec == time_data_to_dec(times)
        pf == np_polyfit(time_data_dec, upload, poly, z)
        rs == np_roots(pf.z, order, err)
        endtime_dec == rs.roots[1]
        xp == np_linspace(time_data_dec[1], endtime_dec, NumPoints)
        newfiles == poly1d(pf.z, xp)
        theargmin == np_nanargmin(np_abs(newfiles))
        base == [NoFit EXCEPT !.done = TRUE, !.poly = poly]
    IN  IF Len(upload) # Len(times) THEN [base EXCEPT !.exc = "ValueError"]
        ELSE IF pf.exc # "none" THEN [base EXCEPT !.exc = pf.exc]
        ELSE IF rs.complex
        THEN [base EXCEPT !.fitted = TRUE, !.z = pf.z, !.exc = "TypeError"]
        ELSE IF rs.roots = <<>>
        THEN [base EXCEPT !.fitted = TRUE, !.z = pf.z, !.exc = "IndexError"]
        ELSE IF theargmin < 0
        THEN [base EXCEPT !.fitted = TRUE, !.z = pf.z, !.roots = rs.roots,
                          !.endtime_dec = endtime_dec, !.xp = xp,
                          !.newfiles = newfiles, !.exc = "ValueError"]
        ELSE [base EXCEPT !.fitted = TRUE, !.z = pf.z, !.roots = rs.roots,
                          !.endtime_dec = endtime_dec, !.xp = xp,
                          !.newfiles = newfiles, !.theargmin = theargmin,
                          !.completion_time =
                              strftime_HM(xp.n[theargmin + 1], xp.d),
                          !.saved = TRUE]

---------------------------------------------------------------------------
\* The state machine.

\* No write was attempted.
NoIO == [u |-> "unused", t |-> "unused"]

Self == [upload_data |-> upload_data, time_data |-> time_data, nfiles |-> nfiles]

\* __init__ (lines 24-37): both lists are read with init=1.
Construct(n) ==
    /\ upload_data' = read_upload_data(1, uploads_txt).ret
    /\ time_data' = read_time_data(1, timestamps_txt).ret
    /\ nfiles' = n
    /\ alive' = TRUE
    /\ lastOp' = "init"
    /\ exc' = "none"
    /\ ret' = <<>>
    /\ calls' = <<>>
    /\ uWrites' = 0
    /\ tWrites' = 0
    /\ ioLog' = NoIO
    /\ added' = 0
    /\ fit' = NoFit

\* The state after the first construction: no file has been written yet.
Init ==
    /\ uploads_txt = NoFile
    /\ timestamps_txt = NoFile
    /\ clock = 0
    /\ upload_data = <<>>
    /\ time_data = <<>>
    /\ nfiles = DefaultNFiles
    /\ alive = TRUE
    /\ lastOp = "init"
    /\ exc = "none"
    /\ ret = <<>>
    /\ calls = <<>>
    /\ uWrites = 0
    /\ tWrites = 0
    /\ ioLog = NoIO
    /\ added = 0
    /\ fit = NoFit

\* A later session: the script is run again and constructs a new object; the
\* files are what the earlier sessions left.
NewSession ==
    /\ Construct(DefaultNFiles)
    /\ UNCHANGED <<uploads_txt, timestamps_txt, clock>>

\* A call of add_to_dataset.  datetime.now() is read only when line 51 is
\* reached.
AddToDataset ==
    /\ alive
    /\ clock < MaxClock
    /\ Len(calls) < MaxCalls
    /\ \E file_number \in FileNumbers, typed \in PromptValues \cup {PromptEOF},
          us \in USecs, ioU \in IOOutcomes, ioT \in IOOutcomes :
          LET now == [sec |-> clock + 1, us |-> us]
              r == add_to_dataset(Self, uploads_txt, timestamps_txt,
                                  file_number, typed, now, ioU, ioT)
          IN  /\ upload_data' = r.upload_data
              /\ time_data' = r.time_data
              /\ uploads_txt' = r.uploads_txt
              /\ timestamps_txt' = r.timestamps_txt
              /\ exc' = r.exc
              /\ uWrites' = r.uWrites
              /\ tWrites' = r.tWrites
              /\ clock' = IF r.exc = "EOFError" THEN clock ELSE clock + 1
              /\ alive' = (r.exc # "SystemExit")
              /\ calls' = Append(calls, file_number)
              /\ ioLog' = [u |-> IF r.uWrites > 0 THEN ioU ELSE "unused",
                           t |-> IF r.tWrites > 0 THEN ioT ELSE "unused"]
              /\ added' = IF r.exc = "none" THEN added + 1 ELSE added
    /\ lastOp' = "add_to_dataset"
    /\ ret' = <<>>
    /\ UNCHANGED <<nfiles, fit>>

\* A call of read_upload_data() with its default init=0.
ReadUploadData ==
    /\ alive
    /\ LET r == read_upload_data(0, uploads_txt)
       IN  exc' = r.exc /\ ret' = r.ret
    /\ lastOp' = "read_upload_data"
    /\ ioLog' = NoIO
    /\ UNCHANGED <<upload_data, time_data, nfiles, uploads_txt, timestamps_txt,
                   clock, alive, calls, uWrites, tWrites, added, fit>>

\* A call of read_time_data() with its default init=0.
ReadTimeData ==
    /\ alive
    /\ LET r == read_time_data(0, timestamps_txt)
       IN  exc' = r.exc /\ ret' = r.ret
    /\ lastOp' = "read_time_data"
    /\ ioLog' = NoIO
    /\ UNCHANGED <<upload_data, time_data, nfiles, uploads_txt, timestamps_txt,
                   clock, alive, calls, uWrites, tWrites, added, fit>>

\* A direct call of write_upload_data().
WriteUploadData ==
    /\ alive
    /\ \E io_u \in IOOutcomes :
          LET w == write_upload_data(upload_data, uploads_txt, io_u)
          IN  /\ uploads_txt' = w.file
              /\ exc' = w.exc
              /\ alive' = (w.exc # "SystemExit")
              /\ ioLog' = [u |-> io_u, t |-> "unused"]
    /\ lastOp' = "write_upload_data"
    /\ ret' = <<>>
    /\ UNCHANGED <<upload_data, time_data, nfiles, timestamps_txt, clock, calls,
                   uWrites, tWrites, added, fit>>

\* A direct call of write_time_data().
WriteTimeData ==
    /\ alive
    /\ \E io_t \in IOOutcomes :
          LET w == write_time_data(time_data, timestamps_txt, io_t)
          IN  /\ timestamps_txt' = w.file
              /\ exc' = w.exc
              /\ alive' = (w.exc # "SystemExit")
              /\ ioLog' = [u |-> "unused", t |-> io_t]
    /\ lastOp' = "write_time_data"
    /\ ret' = <<>>
    /\ UNCHANGED <<upload_data, time_data, nfiles, uploads_txt, clock, calls,
                   uWrites, tWrites, added, fit>>

\* A call of plot_it(poly).
PlotIt ==
    /\ alive
    /\ \E poly \in Degrees, order \in RootOrders, err \in RootErrors :
          \E z \in FitCoefs(poly) :
             fit' = plot_it(upload_data, time_data, poly, z, order, err)
    /\ lastOp' = "plot_it"
    /\ exc' = fit'.exc
    /\ ret' = <<>>
    /\ ioLog' = NoIO
    /\ UNCHANGED <<upload_data, time_data, nfiles, uploads_txt, timestamps_txt,
                   clock, alive, calls, uWrites, tWrites, added>>

Next ==
    \/ NewSession
    \/ AddToDataset
    \/ ReadUploadData
    \/ ReadTimeData
    \/ WriteUploadData
    \/ WriteTimeData

Spec == Init /\ [][Next]_vars

---------------------------------------------------------------------------
\* plot_it on its own, applied to the datasets add_to_dataset leaves: k calls
\* with file number 10 that returned, then calls with a str that stopped at
\* line 52, each sample exactly one second after the one before.

InitFit ==
    \E n \in 0..MaxSamples, k \in 0..MaxSamples, u \in USecs :
        /\ k <= n
        /\ time_data = [i \in 1..n |-> [sec |-> i, us |-> u]]
        /\ upload_data = [i \in 1..k |-> DefaultNFiles - 10]
        /\ nfiles = DefaultNFiles
        /\ uploads_txt = IF k = 0 THEN NoFile
                         ELSE write_upload_data(upload_data, NoFile, "ok").file
        /\ timestamps_txt = IF k = 0 THEN NoFile
                            ELSE write_time_data(SubSeq(time_data, 1, k), NoFile, "ok").file
        /\ clock = n
        /\ alive = TRUE
        /\ lastOp = IF n = 0 THEN "init" ELSE "add_to_dataset"
        /\ exc = IF k < n THEN "TypeError" ELSE "none"
        /\ ret = <<>>
        /\ calls = [i \in 1..n |-> IF i <= k THEN PyInt(10) ELSE PyStr]
        /\ uWrites = IF 0 < k /\ k = n THEN 1 ELSE 0
        /\ tWrites = IF 0 < k /\ k = n THEN 1 ELSE 0
        /\ ioLog = IF 0 < k /\ k = n THEN [u |-> "ok", t |-> "ok"] ELSE NoIO
        /\ added = k
        /\ fit = NoFit

NextFit == PlotIt

SpecFit == InitFit /\ [][NextFit]_vars

---------------------------------------------------------------------------
\* Properties.

IOFailures == {"fail_open", "fail_write"}

\* C1 (append invariant): when every add_to_dataset call made on the object
\* was given an index in 0..nfiles, the dataset has one sample per call and
\* the i-th count is nfiles minus the i-th index.
C1_AppendInvariant ==
    (\A i \in 1..Len(calls) : calls[i].kind = "int" /\ calls[i].val \in 0..nfiles)
    => /\ Len(upload_data) = Len(calls)
       /\ Len(time_data) = Len(calls)
       /\ \A i \in 1..Len(calls) : upload_data[i] = nfiles - calls[i].val

\* C2 (construction loads the persisted dataset): right after construction,
\* when both files exist, the two lists are the samples the files hold.
C2_ConstructionLoads ==
    (lastOp = "init" /\ uploads_txt.exists /\ timestamps_txt.exists)
    => /\ CountRows(upload_data) = uploads_txt.rows
       /\ TimeRows(time_data) = timestamps_txt.rows

\* C3 (equal lengths): between operations the two lists have the same length.
C3_EqualLength == Len(time_data) = Len(upload_data)

\* C4 (full rewrite): after an add_to_dataset that returned True, each file
\* holds exactly the text of the whole in-memory list, and nothing else.
C4_FullRewrite ==
    (lastOp = "add_to_dataset" /\ exc = "none")
    => /\ uploads_txt = [exists |-> TRUE, rows |-> CountRows(upload_data)]
       /\ timestamps_txt = [exists |-> TRUE, rows |-> TimeRows(time_data)]

\* An add_to_dataset returned True on a dataset that already had a sample, so
\* that both files held one row before and hold two rows now.
C4_Witness ==
    /\ lastOp = "add_to_dataset" /\ exc = "none"
    /\ Len(upload_data) = 2
    /\ Len(uploads_txt.rows) = 2
    /\ Len(timestamps_txt.rows) = 2

C6_RoundTrip ==
    /\ (lastOp = "read_upload_data" /\ uploads_txt.exists
        /\ uploads_txt.rows = CountRows(upload_data))
       => (exc = "none" /\ ret = upload_data)
    /\ (lastOp = "read_time_data" /\ timestamps_txt.exists
        /\ timestamps_txt.rows = TimeRows(time_data))
       => (exc = "none" /\ ret = time_data)

\* C7, as claimed (all-or-nothing load): a read with init=0 that returns,
\* returns an empty list when either of the two files is absent.
C7_AllOrNothingLoad ==
    (lastOp \in {"read_upload_data", "read_time_data"} /\ exc = "none"
     /\ (~uploads_txt.exists \/ ~timestamps_txt.exists))
    => ret = <<>>

\* C7, as amended (each file is loaded on its own): a read with init=0 returns
\* an empty list when its own file is absent, and a non-empty list only when
\* its own file is present, whatever the state of the other file.
C7_IndependentLoad ==
    /\ (lastOp = "read_upload_data" /\ ~uploads_txt.exists)
       => (exc = "none" /\ ret = <<>>)
    /\ (lastOp = "read_time_data" /\ ~timestamps_txt.exists)
       => (exc = "none" /\ ret = <<>>)
    /\ (lastOp = "read_upload_data" /\ ret # <<>>) => uploads_txt.exists
    /\ (lastOp = "read_time_data" /\ ret # <<>>) => timestamps_txt.exists

\* read_time_data returned samples while the counts file is absent.
C7_Witness ==
    /\ lastOp = "read_time_data" /\ exc = "none"
    /\ Len(ret) >= 2
    /\ ~uploads_txt.exists

\* C10 (write ordering): once an add_to_dataset has returned True on the
\* object, the counts file never has fewer rows than the timestamps file and
\* at most one row more, and the two differ only after an add_to_dataset that
\* a failed timestamps write aborted.
C10_WriteOrdering ==
    added >= 1
    => /\ Len(timestamps_txt.rows) <= Len(uploads_txt.rows)
       /\ Len(uploads_txt.rows) <= Len(timestamps_txt.rows) + 1
       /\ (Len(uploads_txt.rows) # Len(timestamps_txt.rows)
             => (lastOp = "add_to_dataset" /\ exc = "SystemExit"
                 /\ ioLog.t \in IOFailures))

\* The points of the last fit whose value is exactly zero.
ZeroPoints == {j \in 1..Len(fit.newfiles) : fit.newfiles[j].v = 0}

\* The value of the polynomial z at n/d, power by power, as the numerator
\* over d^(Len(z)-1).
PowerSum(z, n, d) ==
    LET deg == Len(z) - 1
        term(j) == z[j] * Power(n, deg - j + 1) * Power(d, j - 1)
    IN  IF Len(z) = 2 THEN term(1) + term(2) ELSE term(1) + term(2) + term(3)

\* C8, as claimed (insufficient samples are an explicit error): plot_it on a
\* dataset of fewer than poly + 1 samples raises InsufficientSamples and
\* saves no plot.
C8_InsufficientSamplesRaised ==
    (lastOp = "plot_it" /\ Len(time_data) < fit.poly + 1)
    => (exc = "InsufficientSamples" /\ ~fit.saved)

\* C8, as amended (no sample-count check): plot_it on a dataset of fewer than
\* poly + 1 samples never raises InsufficientSamples; with at least one
\* sample (and lists of equal length) np.polyfit is still run and returns
\* coefficients, and the estimate and the plot follow unless roots[0] or its
\* conversion raises; with no sample it ends with polyfit's TypeError and no
\* plot.
C8_NoSampleCheck ==
    (lastOp = "plot_it" /\ Len(time_data) < fit.poly + 1)
    => /\ exc # "InsufficientSamples"
       /\ (Len(time_data) >= 1 /\ Len(upload_data) = Len(time_data))
             => /\ fit.fitted
                /\ exc \in {"none", "IndexError", "TypeError"}
                /\ (exc = "none" <=> fit.saved)
       /\ (Len(time_data) = 0 /\ Len(upload_data) = 0)
             => (exc = "TypeError" /\ ~fit.fitted /\ ~fit.saved)

\* A degree-2 fit of two samples that produced an estimate and a plot.
C8_Witness ==
    /\ lastOp = "plot_it"
    /\ fit.poly = 2
    /\ Len(time_data) = 2 /\ Len(upload_data) = 2
    /\ exc = "none" /\ fit.saved

\* C9 (completion-label selection): when plot_it produces an estimate, t_end
\* is roots[0]; the curve is evaluated at NumPoints evenly spaced points, the
\* first at the first sample's time and the last at t_end; the reported time
\* is that of the point whose value is smallest in absolute value among the
\* values that are not NaN, the earliest one on a tie; so when exactly one
\* point evaluates to zero, that point is the one reported.
C9_CompletionSelection ==
    (lastOp = "plot_it" /\ fit.saved)
    => LET k == fit.theargmin + 1
           ys == fit.newfiles
           xp == fit.xp
       IN  /\ fit.endtime_dec = fit.roots[1]
           /\ Len(xp.n) = NumPoints /\ Len(ys) = NumPoints
           /\ xp.n[1] = time_data_to_dec(time_data)[1] * xp.d
           /\ xp.n[NumPoints] * fit.endtime_dec.d = fit.endtime_dec.n * xp.d
           /\ \A i \in 1..(NumPoints - 2) :
                 xp.n[i + 1] - xp.n[i] = xp.n[i + 2] - xp.n[i + 1]
           /\ \A i \in 1..NumPoints : ys[i].v = PowerSum(fit.z, xp.n[i], xp.d)
           /\ k \in 1..NumPoints
           /\ ~ys[k].nan
           /\ \A j \in 1..NumPoints :
                 ~ys[j].nan => /\ Abs(ys[k].v) <= Abs(ys[j].v)
                               /\ (j < k => Abs(ys[k].v) < Abs(ys[j].v))
           /\ (Cardinality(ZeroPoints) = 1 => k \in ZeroPoints)
           /\ fit.completion_time = strftime_HM(xp.n[k], xp.d)

\* A fit with two real roots of which the first returned is the larger one,
\* whose curve has negative values and exactly one point that evaluates to
\* zero, which is not the last point and is the one reported.
C9_Witness ==
    /\ lastOp = "plot_it" /\ fit.saved
    /\ Len(fit.roots) = 2
    /\ fit.roots[1].n * fit.roots[2].d > fit.roots[2].n * fit.roots[1].d
    /\ Cardinality(ZeroPoints) = 1
    /\ \E j \in 1..NumPoints : fit.newfiles[j].v < 0
    /\ fit.theargmin + 1 \in ZeroPoints
    /\ fit.theargmin < NumPoints - 1

====
